---- MODULE Spec2Model ----
(***************************************************************************)
(* Model of fill_first_page.py: the form walker that reads person records  *)
(* from persons.json and drives an 8-page web form through a browser       *)
(* driver.  The browser driver and the live form are the environment: each *)
(* driver call returns one of the outcomes the driver can produce (normal  *)
(* return, PlaywrightTimeoutError, another exception), and the page        *)
(* content seen by a call is whatever the live page holds at that moment.  *)
(* Navigation and waits return or time out, the cases main handles;        *)
(* element lookups (query_selector, query_selector_all, get_attribute)     *)
(* return normally; fill, select, check and click may raise anything.      *)
(***************************************************************************)
EXTENDS Integers, Sequences, FiniteSets, TLC

\* ------------------------------------------------------------------ bounds

\* Largest number of person records in persons.json.
MaxPeople == 2
\* Number of states of the abstract pseudo-random generator.
RngMod == 6
\* Number of distinct string-hash seeds (set iteration orders) of the process.
MaxHash == 2

\* ------------------------------------------------------- program constants

\* The form has pages 1..LastPage; the walk ends with page LastPage's Continue.
LastPage == 8

\* ------------------------------------------------------------ environment

\* Outcomes of a bounded wait or a navigation (goto, wait_for_selector).
WaitOutcomes == {"ok", "timeout"}
\* Outcomes of a click: "timeout" is PlaywrightTimeoutError, "error" any
\* other exception the driver raises.
ClickOutcomes == {"ok", "timeout", "error"}

\* Field names that appear in person records and on page 1.
Fields == {"element_2", "element_3", "element_9"}

Field(f, v) == [field |-> f, value |-> v]

\* The i-th record of persons.json: a dict, kept as its items in insertion
\* order.  Values are strings, for which str(value) is the value itself.
PersonAt(i) ==
    IF i % 2 = 1
    THEN << Field("element_2", "Ali"), Field("element_3", "Rezaei") >>
    ELSE << Field("element_3", "Karimi"), Field("element_9", "x") >>

PeopleOfLen(n) == [i \in 1..n |-> PersonAt(i)]

\* A radio input of the live page.  An absent or empty attribute is "" for
\* name and id, and 0 for value (values are the strings "1", "2", ... of the
\* form, kept as the numbers 1, 2, ...).
Radio(n, v, i) == [name |-> n, value |-> v, id |-> i]

\* The page structures query_selector_all('input[type="radio"]') can return,
\* in document order.
DomChoices ==
    { << >>,
      << Radio("q1", 1, "a1"), Radio("q1", 2, "a2"), Radio("q1", 3, "a3"),
         Radio("q2", 1, "b1"), Radio("q2", 2, "b2") >>,
      << Radio("q1", 1, "a1"), Radio("q1", 1, "a2"), Radio("q2", 2, ""),
         Radio("", 3, "c1"), Radio("q2", 3, "b3") >>,
      << Radio("q2", 0, "b1"), Radio("", 2, "") >> }

\* ------------------------------------------------------- pure helpers

\* random.choice(seq): the generator's state decides the index (1-based
\* here), and the generator advances.
Choice(rng, n) == (rng % n) + 1
NextRng(rng) == (rng + 1) % RngMod

Min(S) == CHOOSE x \in S : \A y \in S : x <= y

RECURSIVE Sorted(_)
Sorted(S) ==
    IF S = {} THEN << >> ELSE << Min(S) >> \o Sorted(S \ {Min(S)})

Rotate(s, k) ==
    [i \in 1..Len(s) |-> s[((i - 1 + k) % Len(s)) + 1]]

\* list(value_set): the iteration order of a set of strings is decided by
\* the process's string-hash seed, not by the set.
ListOfSet(S, h) == Rotate(Sorted(S), h % Cardinality(S))

\* Page 4's block calls the label filler and page 5's the matrix filler.
StrategyOffByOne(k) ==
    IF k \in {4, 7} THEN "label" ELSE "matrix"

\* The fill strategy main calls in the block it writes for page k.
Strategy(k) ==
    IF k \in {5, 7} THEN "label" ELSE "matrix"

IsPrefix(s, t) == Len(s) <= Len(t) /\ s = SubSeq(t, 1, Len(s))

\* ------------------------------------------------- driver actions issued

FillAct(f, v) == [act |-> "fill", field |-> f, text |-> v]
SelectAct(f, v) == [act |-> "select", field |-> f, text |-> v]
CheckAct(n, v) == [act |-> "check", name |-> n, value |-> v]
LabelClick(i) == [act |-> "click", on |-> "label", for |-> i]
SubmitClick == [act |-> "click", on |-> "submit_primary", for |-> ""]

\* Console lines: <<level, subject>>.
Msg(level, subject) == << level, subject >>

\* ------------------------------------------------------ fill_first_page

\* One iteration of the loop over person_data.items(): `inputs` and
\* `selects` are the fields for which the text-input and the select lookup
\* match on the live page, `raises` the fields whose fill/select raises.
FieldStepSelectFirst(f, inputs, selects, raises) ==
    IF f.field \in selects
    THEN [acts |-> << SelectAct(f.field, f.value) >>,
          log |-> IF f.field \in raises THEN {Msg("ERROR", f.field)} ELSE {}]
    ELSE IF f.field \in inputs
    THEN [acts |-> << FillAct(f.field, f.value) >>,
          log |-> IF f.field \in raises THEN {Msg("ERROR", f.field)} ELSE {}]
    ELSE [acts |-> << >>, log |-> {Msg("WARNING", f.field)}]

FieldStep(f, inputs, selects, raises) ==
    IF f.field \in inputs
    THEN [acts |-> << FillAct(f.field, f.value) >>,
          log |-> IF f.field \in raises THEN {Msg("ERROR", f.field)} ELSE {}]
    ELSE IF f.field \in selects
    THEN [acts |-> << SelectAct(f.field, f.value) >>,
          log |-> IF f.field \in raises THEN {Msg("ERROR", f.field)} ELSE {}]
    ELSE [acts |-> << >>, log |-> {Msg("WARNING", f.field)}]

\* The whole loop over the record's items, from item i on.
RECURSIVE FillFields(_, _, _, _, _)
FillFields(person, i, inputs, selects, raises) ==
    IF i > Len(person) THEN [acts |-> << >>, log |-> {}]
    ELSE LET one == FieldStep(person[i], inputs, selects, raises)
             rest == FillFields(person, i + 1, inputs, selects, raises)
         IN  [acts |-> one.acts \o rest.acts, log |-> one.log \cup rest.log]

\* -------------------------------------------------- fill_radio_matrix_page

\* The names of the groups dict, in insertion order: first appearance among
\* the elements the loop keeps.
RECURSIVE GroupNames(_)
GroupNames(elems) ==
    IF elems = << >> THEN << >>
    ELSE LET n == Head(elems).name
             rest == GroupNames(SelectSeq(Tail(elems), LAMBDA e : e.name # n))
         IN  << n >> \o rest

\* Elements the matrix loop keeps: name and value both non-empty.
MatrixKept(dom) == SelectSeq(dom, LAMBDA e : e.name # "" /\ e.value # 0)

\* groups[name]: the set of values collected for the name.
MatrixValues(dom, n) ==
    {MatrixKept(dom)[i].value : i \in {j \in 1..Len(MatrixKept(dom)) :
                                          MatrixKept(dom)[j].name = n}}

AllMatrixValues(dom) ==
    {MatrixKept(dom)[i].value : i \in 1..Len(MatrixKept(dom))}

\* random.choice(list(value_set)) for the group.
MatrixChooseAnyGroup(dom, n, rng, h) ==
    ListOfSet(AllMatrixValues(dom), h)[Choice(rng, Cardinality(AllMatrixValues(dom)))]

MatrixChoose(dom, n, rng, h) ==
    ListOfSet(MatrixValues(dom, n), h)[Choice(rng, Cardinality(MatrixValues(dom, n)))]

\* The loop over groups.items(), from group i on.  `present`: the groups
\* whose selector still matches a control when it is looked up; `raises`:
\* the groups whose check raises.
RECURSIVE MatrixLoop(_, _, _, _, _, _, _)
MatrixLoop(dom, names, i, rng, h, present, raises) ==
    IF i > Len(names)
    THEN [acts |-> << >>, log |-> {}, checked |-> {}, chosen |-> << >>, rng |-> rng]
    ELSE LET n == names[i]
             v == MatrixChoose(dom, n, rng, h)
             rest == MatrixLoop(dom, names, i + 1, NextRng(rng), h, present, raises)
         IN  [acts |-> (IF n \in present THEN << CheckAct(n, v) >> ELSE << >>)
                         \o rest.acts,
              log |-> (IF n \notin present THEN {Msg("WARNING", n)}
                       ELSE IF n \in raises THEN {Msg("ERROR", n)} ELSE {})
                         \cup rest.log,
              checked |-> (IF n \in present /\ n \notin raises
                           THEN {<< n, v >>} ELSE {}) \cup rest.checked,
              chosen |-> << << n, v >> >> \o rest.chosen,
              rng |-> rest.rng]

MatrixRun(dom, rng, h, present, raises) ==
    MatrixLoop(dom, GroupNames(MatrixKept(dom)), 1, rng, h, present, raises)

\* ------------------------------------------------------- fill_page_5_or_7

\* Elements the label loop keeps: name, value and id all non-empty.
LabelKept(dom) ==
    SelectSeq(dom, LAMBDA e : e.name # "" /\ e.value # 0 /\ e.id # "")

\* groups[name]: the list of (value, id) of the name, in document order.
LabelOptions(dom, n) ==
    LET mine == SelectSeq(LabelKept(dom), LAMBDA e : e.name = n)
    IN  [i \in 1..Len(mine) |-> << mine[i].value, mine[i].id >>]

AllLabelOptions(dom) ==
    [i \in 1..Len(LabelKept(dom)) |-> << LabelKept(dom)[i].value, LabelKept(dom)[i].id >>]

\* random.choice(options) for the group.
LabelChooseAnyGroup(dom, n, rng) ==
    AllLabelOptions(dom)[Choice(rng, Len(AllLabelOptions(dom)))]

LabelChoose(dom, n, rng) ==
    LabelOptions(dom, n)[Choice(rng, Len(LabelOptions(dom, n)))]

\* The driver action for the chosen option: a click on label[for=id].
LabelTarget(opt) == LabelClick(opt[2])

\* The loop over groups.items(), from group i on.  `present`: the groups
\* whose label is found; `raises`: the groups whose click raises.
RECURSIVE LabelLoop(_, _, _, _, _, _)
LabelLoop(dom, names, i, rng, present, raises) ==
    IF i > Len(names)
    THEN [acts |-> << >>, log |-> {}, chosen |-> << >>, rng |-> rng]
    ELSE LET n == names[i]
             opt == LabelChoose(dom, n, rng)
             rest == LabelLoop(dom, names, i + 1, NextRng(rng), present, raises)
         IN  [acts |-> (IF n \in present THEN << LabelTarget(opt) >> ELSE << >>)
                         \o rest.acts,
              log |-> (IF n \notin present THEN {Msg("WARNING", opt[2])}
                       ELSE IF n \in raises THEN {Msg("ERROR", opt[2])} ELSE {})
                         \cup rest.log,
              chosen |-> << << n, opt >> >> \o rest.chosen,
              rng |-> rest.rng]

LabelRun(dom, rng, present, raises) ==
    LabelLoop(dom, GroupNames(LabelKept(dom)), 1, rng, present, raises)

SeqToSet(s) == {s[i] : i \in 1..Len(s)}

\* What a filler hands back to main: the driver actions it issued, its
\* console lines, and whether it raised instead of returning.
NoRadiosRaises ==
    [acts |-> << >>, log |-> {}, checked |-> {}, chosen |-> << >>, raised |-> TRUE]

\* wait_for_selector timed out: `return`.
NoRadios ==
    [acts |-> << >>, log |-> {}, checked |-> {}, chosen |-> << >>, raised |-> FALSE]

\* ------------------------------------------------------------------ state

VARIABLES
    pc,         \* position of main
    fileExists, \* whether persons.json exists
    people,     \* the records read from persons.json
    idx,        \* enumerate(people, start=1): the current record's number
    step,       \* the page number main's current block is written for
    done,       \* number of records for which "Person #idx done" was printed
    browser,    \* "none", "open" or "closed"
    formPage,   \* the form page the session shows (0: none, 9: submitted)
    missed,     \* submit/Continue clicks of this record that timed out
    rng,        \* state of the random module's generator
    entryRng,   \* the generator's state when the latest filler was entered
    hashSeed,   \* the process's string-hash seed
    ops,        \* operations main has issued for the current record
    acts,       \* driver actions issued by the latest operation
    log,        \* console lines printed by the latest operation
    controls,   \* page-1 controls the latest fill_first_page found
    dom,        \* radios the latest filler found on the live page
    chosen,     \* the latest filler's random choices, per group
    checked     \* controls the latest matrix filler left checked

vars == << pc, fileExists, people, idx, step, done, browser, formPage, missed,
           rng, entryRng, hashSeed, ops, acts, log, controls, dom, chosen, checked >>

NoControls == [inputs |-> {}, selects |-> {}]

Init ==
    /\ pc = "start"
    /\ fileExists \in BOOLEAN
    /\ people \in {PeopleOfLen(n) : n \in (IF fileExists THEN 0..MaxPeople ELSE {0})}
    /\ idx = 0
    /\ step = 0
    /\ done = 0
    /\ browser = "none"
    /\ formPage = 0
    /\ missed = 0
    /\ rng \in 0..(RngMod - 1)
    /\ entryRng = rng
    /\ hashSeed \in 0..(MaxHash - 1)
    /\ ops = << >>
    /\ acts = << >>
    /\ log = {}
    /\ controls = NoControls
    /\ dom = << >>
    /\ chosen = << >>
    /\ checked = {}

LastOp == IF ops = << >> THEN "none" ELSE ops[Len(ops)]

\* Nothing of the latest filler's findings is kept by the next operation.
ClearFindings ==
    /\ controls' = NoControls
    /\ dom' = << >>
    /\ chosen' = << >>
    /\ checked' = {}

\* --------------------------------------------------------------- main

\* The existence check is skipped.
CheckDataFileSkipped ==
    /\ pc = "start"
    /\ pc' = "launch"
    /\ log' = {}
    /\ UNCHANGED << fileExists, people, idx, step, done, browser, formPage, missed,
                    rng, entryRng, hashSeed, ops, acts, controls, dom, chosen, checked >>

\* if not DATA_FILE.exists(): print error, return.
CheckDataFile ==
    /\ pc = "start"
    /\ IF fileExists
       THEN pc' = "launch" /\ log' = {}
       ELSE pc' = "exit" /\ log' = {Msg("ERROR", "persons.json")}
    /\ UNCHANGED << fileExists, people, idx, step, done, browser, formPage, missed,
                    rng, entryRng, hashSeed, ops, acts, controls, dom, chosen, checked >>

\* people = json.loads(...); launch the browser, open the page, enter the loop.
Launch ==
    /\ pc = "launch"
    /\ browser' = "open"
    /\ idx' = IF Len(people) > 0 THEN 1 ELSE 0
    /\ pc' = IF Len(people) > 0 THEN "goto" ELSE "all_done"
    /\ UNCHANGED << fileExists, people, step, done, formPage, missed, rng, entryRng,
                    hashSeed, ops, acts, log, controls, dom, chosen, checked >>

\* The error is printed and the loop goes on with page 1's filler.
FatalStopGoesOn(what) ==
    /\ pc' = "page1"
    /\ browser' = browser
    /\ log' = {Msg("ERROR", what)}

\* print the error; browser.close(); return.
FatalStop(what) ==
    /\ pc' = "exit"
    /\ browser' = "closed"
    /\ log' = {Msg("ERROR", what)}

\* page.goto(SITE_URL, timeout=30000)
Goto ==
    /\ pc = "goto"
    /\ ops' = << "goto" >>
    /\ acts' = << >>
    /\ step' = 1
    /\ missed' = 0
    /\ \E o \in WaitOutcomes :
         IF o = "ok"
         THEN pc' = "wait_container" /\ formPage' = 1 /\ log' = {}
              /\ browser' = browser
         ELSE FatalStop("page1_load") /\ formPage' = formPage
    /\ ClearFindings
    /\ UNCHANGED << fileExists, people, idx, done, rng, entryRng, hashSeed >>

\* page.wait_for_selector("#form_container", timeout=10000)
WaitContainer ==
    /\ pc = "wait_container"
    /\ ops' = Append(ops, "wait_container")
    /\ \E o \in WaitOutcomes :
         IF o = "ok"
         THEN pc' = "page1" /\ log' = {} /\ browser' = browser
         ELSE FatalStop("form_container")
    /\ UNCHANGED << fileExists, people, idx, step, done, formPage, missed, rng,
                    entryRng, hashSeed, acts, controls, dom, chosen, checked >>

\* What a click on input#submit_primary does to main: on "ok" the form
\* advances one page; a timeout is caught and printed; any other exception
\* is caught by nobody and ends the run (the driver's context manager shuts
\* the browser down as the exception leaves main).
SubmitEffect(o, next, msg) ==
    CASE o = "ok" ->
           /\ formPage' = formPage + 1
           /\ missed' = missed
           /\ log' = msg
           /\ pc' = next
           /\ browser' = browser
      [] o = "timeout" ->
           /\ formPage' = formPage
           /\ missed' = missed + 1
           /\ log' = msg \cup {Msg("ERROR", "submit_primary")}
           /\ pc' = next
           /\ browser' = browser
      [] o = "error" ->
           /\ formPage' = formPage
           /\ missed' = missed
           /\ log' = msg \cup {Msg("TRACEBACK", "submit_primary")}
           /\ pc' = "crashed"
           /\ browser' = "closed"

\* fill_first_page(person, page)
FillFirstPage ==
    /\ pc = "page1"
    /\ ops' = Append(ops, "page1")
    /\ \E inputs \in SUBSET Fields, selects \in SUBSET Fields,
          raises \in SUBSET Fields, o \in ClickOutcomes :
         LET r == FillFields(people[idx], 1, inputs, selects, raises)
         IN  /\ acts' = Append(r.acts, SubmitClick)
             /\ controls' = [inputs |-> inputs, selects |-> selects]
             /\ SubmitEffect(o, "pause", r.log)
    /\ step' = 2
    /\ UNCHANGED << fileExists, people, idx, done, rng, entryRng, hashSeed,
                    dom, chosen, checked >>

\* page.wait_for_timeout(1000)
Pause ==
    /\ pc = "pause"
    /\ ops' = Append(ops, "pause")
    /\ acts' = << >>
    /\ log' = {}
    /\ pc' = "fill"
    /\ ClearFindings
    /\ UNCHANGED << fileExists, people, idx, step, done, browser, formPage, missed,
                    rng, entryRng, hashSeed >>

\* main after a filler call: the next statement, or the exception leaving main.
AfterFiller(r) ==
    /\ acts' = r.acts
    /\ log' = r.log
    /\ chosen' = r.chosen
    /\ checked' = r.checked
    /\ IF r.raised
       THEN pc' = "crashed" /\ browser' = "closed"
       ELSE pc' = "continue" /\ browser' = browser

\* fill_radio_matrix_page(page)
FillRadioMatrix ==
    /\ pc = "fill"
    /\ Strategy(step) = "matrix"
    /\ ops' = Append(ops, "matrix")
    /\ entryRng' = rng
    /\ \E d \in DomChoices :
         /\ dom' = d
         /\ IF d = << >>
            THEN AfterFiller(NoRadios) /\ rng' = rng
            ELSE \E present \in SUBSET SeqToSet(GroupNames(MatrixKept(d))) :
                   \E raises \in SUBSET present :
                     LET r == MatrixRun(d, rng, hashSeed, present, raises)
                     IN  /\ AfterFiller([acts |-> r.acts, log |-> r.log,
                                         checked |-> r.checked, chosen |-> r.chosen,
                                         raised |-> FALSE])
                         /\ rng' = r.rng
    /\ UNCHANGED << fileExists, people, idx, step, done, formPage, missed, hashSeed,
                    controls >>

\* fill_page_5_or_7(page)
FillPage5or7 ==
    /\ pc = "fill"
    /\ Strategy(step) = "label"
    /\ ops' = Append(ops, "label")
    /\ entryRng' = rng
    /\ \E d \in DomChoices :
         /\ dom' = d
         /\ IF d = << >>
            THEN AfterFiller(NoRadios) /\ rng' = rng
            ELSE \E present \in SUBSET SeqToSet(GroupNames(LabelKept(d))) :
                   \E raises \in SUBSET present :
                     LET r == LabelRun(d, rng, present, raises)
                     IN  /\ AfterFiller([acts |-> r.acts, log |-> r.log,
                                         checked |-> {}, chosen |-> r.chosen,
                                         raised |-> FALSE])
                         /\ rng' = r.rng
    /\ UNCHANGED << fileExists, people, idx, step, done, formPage, missed, hashSeed,
                    controls >>

\* click_continue(page), and main's move to the next block
ClickContinue ==
    /\ pc = "continue"
    /\ ops' = Append(ops, "continue")
    /\ acts' = << SubmitClick >>
    /\ \E o \in ClickOutcomes :
         SubmitEffect(o, IF step < LastPage THEN "pause" ELSE "person_done", {})
    /\ step' = IF step < LastPage THEN step + 1 ELSE step
    /\ ClearFindings
    /\ UNCHANGED << fileExists, people, idx, done, rng, entryRng, hashSeed >>

\* print("=== Person #idx done. ==="); the for loop takes the next record.
PersonDone ==
    /\ pc = "person_done"
    /\ done' = done + 1
    /\ log' = {Msg("DONE", "person")}
    /\ acts' = << >>
    /\ IF idx < Len(people)
       THEN idx' = idx + 1 /\ pc' = "goto"
       ELSE idx' = idx /\ pc' = "all_done"
    /\ UNCHANGED << fileExists, people, step, browser, formPage, missed, rng,
                    entryRng, hashSeed, ops, controls, dom, chosen, checked >>

\* input("All done..."); browser.close()
AllDone ==
    /\ pc = "all_done"
    /\ browser' = "closed"
    /\ pc' = "exit"
    /\ log' = {Msg("INFO", "closing")}
    /\ UNCHANGED << fileExists, people, idx, step, done, formPage, missed, rng,
                    entryRng, hashSeed, ops, acts, controls, dom, chosen, checked >>

Next ==
    \/ CheckDataFile
    \/ Launch
    \/ Goto
    \/ WaitContainer
    \/ FillFirstPage
    \/ Pause
    \/ FillRadioMatrix
    \/ FillPage5or7
    \/ ClickContinue
    \/ PersonDone
    \/ AllDone

Spec == Init /\ [][Next]_vars

TypeOK ==
    /\ pc \in {"start", "launch", "goto", "wait_container", "page1", "pause", "fill",
               "continue", "person_done", "all_done", "exit", "crashed"}
    /\ browser \in {"none", "open", "closed"}
    /\ formPage \in 0..(LastPage + 1)
    /\ idx \in 0..Len(people)
    /\ done \in 0..Len(people)
    /\ rng \in 0..(RngMod - 1)

\* ------------------------------------------------------------ properties

Terminated == pc \in {"exit", "crashed"}

\* The one fatal path: page 1 did not load or its container did not appear.
FatalLogged ==
    log \cap {Msg("ERROR", "page1_load"), Msg("ERROR", "form_container")} # {}

\* The sequence of operations one record gets: page 1, then for pages 2..8
\* a pause, the page's filler (matrix for 2, 3, 4, 6, 8; label for 5, 7)
\* and Continue.
ExpectedOps ==
    << "goto", "wait_container", "page1",
       "pause", "matrix", "continue",
       "pause", "matrix", "continue",
       "pause", "matrix", "continue",
       "pause", "label", "continue",
       "pause", "matrix", "continue",
       "pause", "label", "continue",
       "pause", "matrix", "continue" >>

\* The operations of every record are issued in the order main writes them,
\* each once, and a record is done exactly when all of them were issued.
OpsInOrder ==
    /\ IsPrefix(ops, ExpectedOps)
    /\ (pc = "person_done" => ops = ExpectedOps)
    /\ (pc \in {"goto", "wait_container", "page1", "pause", "fill", "continue"}
          => done = idx - 1)
    /\ (pc = "person_done" => done = idx - 1)
    /\ (done > 0 /\ pc \in {"goto", "all_done"} => ops = ExpectedOps)

\* C1: in any run with no fatal page-1 failure, the records are processed
\* serially in input order and each gets exactly the sequence goto, container
\* wait, page-1 filler, then for pages 2..8 pause, that page's filler and
\* Continue; so a run that ended without the fatal failure (and not inside
\* page 1's filler either) has issued the whole sequence for every record.
C1_EveryRecordWalked ==
    /\ OpsInOrder
    /\ (Terminated /\ fileExists /\ ~FatalLogged /\ LastOp # "page1"
          => /\ done = Len(people)
             /\ (Len(people) > 0 => ops = ExpectedOps))

\* C2: once page 1's load or container wait has timed out, the error is
\* printed, the browser is closed, main has returned, nothing was issued for
\* the record after the failed wait, and nothing is issued from then on.
C2_FatalStopsRun ==
    /\ [](FatalLogged =>
            /\ pc = "exit"
            /\ browser = "closed"
            /\ acts = << >>
            /\ ops \in {<< "goto" >>, << "goto", "wait_container" >>}
            /\ done = idx - 1)
    /\ [][FatalLogged => UNCHANGED << ops, acts, formPage, done, idx, browser >>]_vars

\* C2's case: the container wait of the first of two records timed out.
C2_Witness ==
    /\ FatalLogged
    /\ Msg("ERROR", "form_container") \in log
    /\ idx = 1
    /\ Len(people) = 2
    /\ pc = "exit"

\* C3: when persons.json does not exist, main prints an error naming it and
\* returns; the browser is never launched, no page is opened and nothing is
\* navigated; and in every run the launch comes after the existence check.
C3_MissingFileNoBrowser ==
    /\ (~fileExists =>
          /\ pc \in {"start", "exit"}
          /\ browser = "none"
          /\ formPage = 0
          /\ ops = << >>
          /\ acts = << >>
          /\ (pc = "exit" => log = {Msg("ERROR", "persons.json")}))
    /\ (pc = "start" => browser = "none")

\* C3's case: the file is missing and main has returned.
C3_Witness ==
    ~fileExists /\ pc = "exit" /\ Msg("ERROR", "persons.json") \in log

\* The latest operation was the matrix filler / the label filler, and it
\* has returned to main.
MatrixReturned == pc = "continue" /\ LastOp = "matrix"
LabelReturned == pc = "continue" /\ LastOp = "label"

MatrixNames == SeqToSet(GroupNames(MatrixKept(dom)))

ChecksOf(n) == {j \in 1..Len(acts) : acts[j].act = "check" /\ acts[j].name = n}

\* C4 as stated: for every discovered group the matrix filler leaves
\* exactly one control of the group checked, its value one of the group's.
C4_ExactlyOneChecked ==
    MatrixReturned =>
      \A n \in MatrixNames :
        /\ Cardinality({c \in checked : c[1] = n}) = 1
        /\ \A c \in checked : c[1] = n => c[2] \in MatrixValues(dom, n)

\* C4 amended: for every discovered group the matrix filler issues at most
\* one check action, exactly one whenever the lookup of the chosen
\* name+value selector returns a control (otherwise a warning, no action and
\* the group left unanswered); the action's value is one of the values
\* discovered for that same group; and the control is left checked exactly
\* when the action was issued and did not raise.
C4_AtMostOneCheckFromGroup ==
    MatrixReturned =>
      /\ \A j \in 1..Len(acts) :
           /\ acts[j].act = "check"
           /\ acts[j].name \in MatrixNames
           /\ acts[j].value \in MatrixValues(dom, acts[j].name)
      /\ \A n \in MatrixNames :
           /\ Cardinality(ChecksOf(n)) <= 1
           /\ (Cardinality(ChecksOf(n)) = 1 <=> Msg("WARNING", n) \notin log)
           /\ {c \in checked : c[1] = n} =
                IF ChecksOf(n) # {} /\ Msg("ERROR", n) \notin log
                THEN {<< n, acts[j].value >> : j \in ChecksOf(n)}
                ELSE {}

\* C4's case: groups q1 {1,2,3} and q2 {1,2} were discovered and each got
\* its one check action.
C4_Witness ==
    /\ MatrixReturned
    /\ MatrixNames = {"q1", "q2"}
    /\ MatrixValues(dom, "q1") = {1, 2, 3}
    /\ MatrixValues(dom, "q2") = {1, 2}
    /\ Len(acts) = 2
    /\ Cardinality(checked) = 2

\* C5: when no radio appears within the wait bound, either filler returns
\* without raising, issues no driver action and prints nothing, and main
\* goes on to that page's Continue.
C5_NoRadiosNoAction ==
    [][(pc = "fill" /\ dom' = << >>)
         => /\ pc' = "continue"
            /\ acts' = << >>
            /\ log' = {}
            /\ checked' = {}
            /\ step' = step
            /\ browser' = "open"]_vars

\* C5's case: the label filler found no radio on step 5 and main is at
\* that page's Continue.
C5_Witness ==
    /\ LabelReturned
    /\ dom = << >>
    /\ step = 5
    /\ acts = << >>

\* fill_first_page has just run on the current record.
Page1Ran == LastOp = "page1" /\ pc \in {"pause", "crashed"}

FieldActs == SubSeq(acts, 1, Len(acts) - 1)

ActsOfField(f) == {j \in 1..Len(FieldActs) : FieldActs[j].field = f}

\* C6: page 1's filler issues at most one fill-or-select per field: a fill
\* when a text input matches (the select lookup is skipped), else a select
\* when a select matches, else nothing and a warning; when every field
\* matches a text input that is exactly N fills and no select; and the
\* field actions are followed by one click of the primary submit control.
C6_OneActionPerField ==
    Page1Ran =>
      LET person == people[idx]
          names == {person[i].field : i \in 1..Len(person)}
      IN  /\ Len(acts) >= 1
          /\ acts[Len(acts)] = SubmitClick
          /\ \A j \in 1..Len(FieldActs) :
               FieldActs[j].act \in {"fill", "select"} /\ FieldActs[j].field \in names
          /\ \A f \in names :
               /\ Cardinality(ActsOfField(f)) <= 1
               /\ (f \in controls.inputs =>
                     \E j \in ActsOfField(f) : FieldActs[j].act = "fill")
               /\ (f \notin controls.inputs /\ f \in controls.selects =>
                     \E j \in ActsOfField(f) : FieldActs[j].act = "select")
               /\ (f \notin controls.inputs /\ f \notin controls.selects =>
                     ActsOfField(f) = {} /\ Msg("WARNING", f) \in log)
          /\ (names \subseteq controls.inputs =>
                /\ Len(FieldActs) = Len(person)
                /\ \A j \in 1..Len(FieldActs) : FieldActs[j].act = "fill")

\* C6's case: both fields of the record match a text input and a select,
\* and two fills and the submit click were issued.
C6_Witness ==
    /\ Page1Ran
    /\ pc = "pause"
    /\ {"element_2", "element_3"} \subseteq controls.inputs
    /\ {"element_2", "element_3"} \subseteq controls.selects
    /\ acts = << FillAct("element_2", "Ali"), FillAct("element_3", "Rezaei"),
                 SubmitClick >>

\* C7: every exception or timeout of a fill, select, check or click,
\* the submit and Continue clicks included, is caught and logged and never
\* ends the run.
C7_ActionExceptionsCaught ==
    /\ pc # "crashed"
    /\ Msg("TRACEBACK", "submit_primary") \notin log

\* C8: with the generator's seed fixed, the fillers' choices on a page
\* structure are the same in every run, whatever the run's string-hash seed.
C8_ChoicesDependOnSeedOnly ==
    /\ (MatrixReturned =>
          \A h \in 0..(MaxHash - 1) :
            MatrixRun(dom, entryRng, h, {}, {}).chosen = chosen)
    /\ (LabelReturned => LabelRun(dom, entryRng, {}, {}).chosen = chosen)

\* The label filler's part of C8 alone.
LabelChoicesDependOnSeedOnly ==
    LabelReturned => LabelRun(dom, entryRng, {}, {}).chosen = chosen

\* C9 as stated: whenever main calls the filler of step k, the session
\* shows form page k.
C9_FillerOnItsPage ==
    pc = "fill" => formPage = step

\* C9 amended: the filler is chosen by the step number alone (matrix for
\* steps 2, 3, 4, 6, 8, label for 5, 7); the session then shows page
\* k - m, where m is the number of submit/Continue clicks of the record
\* that timed out: page k only when none did.
C9_FillerByStepNumber ==
    /\ (pc = "fill" => formPage = step - missed /\ formPage >= 1 /\ missed >= 0)
    /\ (MatrixReturned => step \in {2, 3, 4, 6, 8})
    /\ (LabelReturned => step \in {5, 7})
    /\ (pc = "continue" => LastOp \in {"matrix", "label"})

\* C9's case: the label filler has run as step 5 while the form still
\* showed page 3.
C9_Witness ==
    LabelReturned /\ step = 5 /\ formPage = 3 /\ missed = 2

LabelNames == GroupNames(LabelKept(dom))

ClicksFor(i) == {j \in 1..Len(acts) : acts[j].for = i}

\* C10: for every group the label filler picks one (value, id) pair of that
\* group and issues at most one click, on the label of the chosen id and
\* never on the input; when the label is absent it warns and issues no click
\* for the group, and the other groups are processed all the same.
C10_LabelOfChosenOption ==
    LabelReturned =>
      /\ Len(chosen) = Len(LabelNames)
      /\ \A j \in 1..Len(acts) :
           /\ acts[j] = LabelClick(acts[j].for)
           /\ \E i \in 1..Len(chosen) : chosen[i][2][2] = acts[j].for
      /\ \A i \in 1..Len(chosen) :
           /\ chosen[i][1] = LabelNames[i]
           /\ chosen[i][2] \in SeqToSet(LabelOptions(dom, LabelNames[i]))
           /\ Cardinality(ClicksFor(chosen[i][2][2])) =
                IF Msg("WARNING", chosen[i][2][2]) \in log THEN 0 ELSE 1

\* C10's case: two groups, the first one's label absent (warning, no
\* click), the second one's label clicked.
C10_Witness ==
    /\ LabelReturned
    /\ Len(chosen) = 2
    /\ Msg("WARNING", chosen[1][2][2]) \in log
    /\ acts = << LabelClick(chosen[2][2][2]) >>

====
